---- MODULE Spec2Model ----
(***************************************************************************)
(* Model of recommend/imageHandler.go (kubearmor-client): pulling an       *)
(* image, saving it to a transport archive, extracting the archive and its *)
(* nested layer archives into tempDir, resolving manifest.json and the     *)
(* config file it names, and handing the ImageInfo to the policy step.     *)
(*                                                                         *)
(* Strings are TLA+ strings handled character by character (Len, SubSeq,   *)
(* \o), so path cleaning, prefix / suffix tests and the manifest pattern   *)
(* are computed the way the Go library calls compute them.                 *)
(***************************************************************************)
EXTENDS Integers, Sequences, FiniteSets, TLC

(***************************************************************************)
(* Bounds of the model.                                                    *)
(***************************************************************************)
\* Total number of tar entries of an image, nested layer entries included.
MaxEntries == 3

(***************************************************************************)
(* Program constants.                                                      *)
(***************************************************************************)
\* io.CopyN(f, tr, 2e+8 /*200MB*/) in extractTar
CopyLimit == 200000000

\* var tempDir string: the scratch directory everything is extracted into
tempDir == "/t/k"

(***************************************************************************)
(* strings.HasPrefix / strings.HasSuffix                                   *)
(***************************************************************************)
HasPrefix(s, p) == Len(s) >= Len(p) /\ SubSeq(s, 1, Len(p)) = p

HasSuffix(s, x) == Len(s) >= Len(x) /\ SubSeq(s, Len(s) - Len(x) + 1, Len(s)) = x

(***************************************************************************)
(* path/filepath: Clean and Join (Unix separator).                         *)
(***************************************************************************)
RECURSIVE Split(_, _, _)
\* the "/"-separated components of s from position i on, cur the one begun
Split(s, i, cur) ==
  IF i > Len(s) THEN <<cur>>
  ELSE LET c == SubSeq(s, i, i) IN
       IF c = "/" THEN <<cur>> \o Split(s, i + 1, "")
       ELSE Split(s, i + 1, cur \o c)

RECURSIVE CleanComps(_, _, _)
\* filepath.Clean's walk over the components: "" and "." are dropped, ".."
\* removes the last kept component, is dropped at the root of a rooted path
\* and is kept in front of a relative one
CleanComps(comps, out, rooted) ==
  IF comps = <<>> THEN out
  ELSE LET c == Head(comps)
           rest == Tail(comps) IN
       IF c = "" \/ c = "." THEN CleanComps(rest, out, rooted)
       ELSE IF c = ".." THEN
              IF out /= <<>> /\ out[Len(out)] /= ".."
                THEN CleanComps(rest, SubSeq(out, 1, Len(out) - 1), rooted)
              ELSE IF rooted THEN CleanComps(rest, out, rooted)
              ELSE CleanComps(rest, Append(out, ".."), rooted)
       ELSE CleanComps(rest, Append(out, c), rooted)

RECURSIVE JoinComps(_)
JoinComps(comps) ==
  IF comps = <<>> THEN ""
  ELSE IF Len(comps) = 1 THEN Head(comps)
  ELSE Head(comps) \o "/" \o JoinComps(Tail(comps))

Clean(p) ==
  IF p = "" THEN "."
  ELSE LET rooted == SubSeq(p, 1, 1) = "/"
           out == CleanComps(Split(p, 1, ""), <<>>, rooted) IN
       IF rooted THEN "/" \o JoinComps(out)
       ELSE IF out = <<>> THEN "." ELSE JoinComps(out)

\* filepath.Join(d, t): empty elements are ignored, the rest joined by "/" and cleaned
Join(d, t) ==
  IF d = "" /\ t = "" THEN ""
  ELSE IF d = "" THEN Clean(t)
  ELSE IF t = "" THEN Clean(d)
  ELSE Clean(d \o "/" \o t)

\* the directory holding path p (a cleaned, rooted path)
Dir(p) ==
  LET comps == CleanComps(Split(p, 1, ""), <<>>, TRUE) IN
  IF comps = <<>> THEN "/"
  ELSE "/" \o JoinComps(SubSeq(comps, 1, Len(comps) - 1))

RECURSIVE Ancestors(_)
\* p and every directory above it
Ancestors(p) == IF p = "/" THEN {"/"} ELSE {p} \cup Ancestors(Dir(p))

\* p is root or lies below it in the directory tree
Within(root, p) == root \in Ancestors(p)

(***************************************************************************)
(* sanitizeArchivePath: the joined path, accepted when the cleaned root    *)
(* is a string prefix of it.                                               *)
(***************************************************************************)
sanitizeArchivePath(d, t) ==
  LET v == Join(d, t) IN
  IF HasPrefix(v, Clean(d)) THEN [ok |-> TRUE, v |-> v]
  ELSE [ok |-> FALSE, v |-> ""]

(***************************************************************************)
(* regexp.MustCompile(spec).Match(name): an unanchored match; the pattern  *)
(* characters of the manifest pattern are literals except ".", which       *)
(* matches any character.                                                  *)
(***************************************************************************)
RegexMatch(spec, name) ==
  \E i \in 0..(Len(name) - Len(spec)) :
    \A j \in 1..Len(spec) :
      LET ch == SubSeq(spec, j, j) IN
      ch = "." \/ ch = SubSeq(name, i + j, i + j)

checkForSpec(spec, fl) == SelectSeq(fl, LAMBDA name : RegexMatch(spec, name))

(***************************************************************************)
(* File contents.  A body is what a tar entry carries or a file holds:     *)
(*   data     uninterpreted bytes                                          *)
(*   tar      a well-formed tar stream of entries, end marker included     *)
(*   jsonarr  a JSON array of objects   (the shape of manifest.json)       *)
(*   jsonobj  a JSON object             (the shape of a config file)       *)
(* A JSON value is [t, s, a]: t its type, s the string, a the elements.    *)
(***************************************************************************)
JAbsent == [t |-> "absent", s |-> "", a |-> <<>>]
JStr(x) == [t |-> "str", s |-> x, a |-> <<>>]
JNum == [t |-> "num", s |-> "", a |-> <<>>]
JArr(xs) == [t |-> "arr", s |-> "", a |-> xs]

\* a JSON object by the four keys the program looks up
JObj(cfg, tags, arch, os) ==
  [Config |-> cfg, RepoTags |-> tags, architecture |-> arch, os |-> os]

DataBody(n) == [kind |-> "data", size |-> n, entries |-> <<>>, objs |-> <<>>]
JsonArr(n, objs) == [kind |-> "jsonarr", size |-> n, entries |-> <<>>, objs |-> objs]
JsonObj(n, obj) == [kind |-> "jsonobj", size |-> n, entries |-> <<>>, objs |-> <<obj>>]
NoBody == DataBody(0)

\* tar: a 512-byte header per entry, content padded to 512, two zero blocks
RoundUp512(n) == ((n + 511) \div 512) * 512

RECURSIVE TarSize(_)
TarSize(entries) ==
  IF entries = <<>> THEN 1024
  ELSE 512 + RoundUp512(Head(entries).body.size) + TarSize(Tail(entries))

TarBody(entries) ==
  [kind |-> "tar", size |-> TarSize(entries), entries |-> entries, objs |-> <<>>]

\* tar.Header: Name, Typeflag and the content that follows the header
Reg(name, body) == [Name |-> name, Typeflag |-> "reg", body |-> body]
DirEntry(name) == [Name |-> name, Typeflag |-> "dir", body |-> NoBody]
OtherEntry(name) == [Name |-> name, Typeflag |-> "other", body |-> NoBody]

(***************************************************************************)
(* The file system: the directories that exist and, per file path, the     *)
(* body last written to it, how many of the body's bytes were copied and   *)
(* the file's length.  Files are opened without O_TRUNC, so a file keeps   *)
(* the tail of a longer earlier content (len > copied).                    *)
(***************************************************************************)
EmptyDisk == [dirs |-> Ancestors(tempDir), files |-> <<>>]

IsFile(d, p) == p \in DOMAIN d.files
IsDir(d, p) == p \in d.dirs

\* os.Stat(p) returns no error
StatOk(d, p) == IsDir(d, p) \/ IsFile(d, p)

\* os.MkdirAll(p): fails when a path component is a file
MkdirAllOk(d, p) == \A a \in Ancestors(p) : ~IsFile(d, a)
MkdirAll(d, p) == [d EXCEPT !.dirs = @ \cup Ancestors(p)]

\* os.OpenFile(p, O_CREATE|O_RDWR, mode): the parent must be a directory
\* and p itself must not be one
OpenFileOk(d, p) == ~IsDir(d, p) /\ IsDir(d, Dir(p))

Max(a, b) == IF a >= b THEN a ELSE b
Min(a, b) == IF a <= b THEN a ELSE b

\* n bytes of body written from offset 0 of p, the rest of an old file kept
\* (permission bits are left out: every file written can be opened again)
WriteFile(d, p, body, n) ==
  LET old == IF IsFile(d, p) THEN d.files[p].len ELSE 0 IN
  [d EXCEPT !.files = (p :> [body |-> body, copied |-> n, len |-> Max(old, n)]) @@ @]

\* io.CopyN(dst, src, limit): copies min(size, limit) bytes; the error is
\* io.EOF when the source ended before limit bytes, nil when limit bytes were copied
CopyN(size, limit) ==
  [written |-> Min(size, limit), eof |-> size < limit]

\* all bytes of the file are the bytes of its body: json.Unmarshal accepts
\* no bytes after the top-level value
Intact(f) == f.copied = f.body.size /\ f.len = f.copied

\* what tar.Reader yields for file f: the entries up to the end marker
\* (bytes after the marker are not read), or an error for anything that is
\* no tar stream; an empty file is an empty archive
TarEntries(f) ==
  IF f.body.kind = "tar" /\ f.copied = f.body.size
    THEN [ok |-> TRUE, entries |-> f.body.entries]
  ELSE IF f.copied = 0 THEN [ok |-> TRUE, entries |-> <<>>]
  ELSE [ok |-> FALSE, entries |-> <<>>]

(***************************************************************************)
(* ImageInfo and manifest resolution.                                      *)
(***************************************************************************)
NewImageInfo(name) ==
  [Name |-> name, RepoTags |-> <<>>, Arch |-> "", OS |-> "",
   FileList |-> <<>>, DirList |-> <<>>]

RECURSIVE StrPrefix(_)
\* the tags appended by the loop over RepoTags before tag.(string) panics
StrPrefix(a) ==
  IF a = <<>> \/ Head(a).t /= "str" THEN <<>>
  ELSE <<Head(a).s>> \o StrPrefix(Tail(a))

\* faulty variant: only an empty manifest is refused (len(manres) < 1)
expectingOneConfigLax(manres) == Len(manres) < 1

\* if len(manres) != 1 { log.Fatal("expecting one config in manifest!") }
expectingOneConfigFails(manres) == Len(manres) /= 1

\* readManifest(img, manifest) on file system d with rd the files read so
\* far: the ImageInfo as the call leaves it, the files read, and err, the
\* message of the log.Fatal (or "panic" for a failed type assertion) that
\* ended the process, "" when the call returned
readManifest(img, manifest, d, rd) ==
  LET rd1 == Append(rd, manifest)
      Fail(i, r, e) == [img |-> i, reads |-> r, err |-> e] IN
  IF ~IsFile(d, manifest) THEN
    Fail(img, rd1, IF IsDir(d, manifest) THEN "manifest read failed" ELSE "open file failed")
  ELSE LET mf == d.files[manifest] IN
  IF ~(mf.body.kind = "jsonarr" /\ Intact(mf)) THEN
    Fail(img, rd1, "manifest json unmarshal failed")
  ELSE LET manres == mf.body.objs IN
  IF expectingOneConfigFails(manres) THEN Fail(img, rd1, "expecting one config in manifest!")
  ELSE IF manres[1].Config.t /= "str" THEN Fail(img, rd1, "panic")
  ELSE LET config == Join(tempDir, manres[1].Config.s)
           rd2 == Append(rd1, config) IN
  IF ~IsFile(d, config) THEN
    Fail(img, rd2, IF IsDir(d, config) THEN "config read failed" ELSE "open file failed")
  ELSE LET cf == d.files[config] IN
  IF ~(cf.body.kind = "jsonobj" /\ Intact(cf)) THEN
    Fail(img, rd2, "config json unmarshal failed")
  ELSE LET cfgres == cf.body.objs[1] IN
  IF cfgres.architecture.t /= "str" THEN Fail(img, rd2, "panic")
  ELSE LET img1 == [img EXCEPT !.Arch = cfgres.architecture.s] IN
  IF cfgres.os.t /= "str" THEN Fail(img1, rd2, "panic")
  ELSE LET img2 == [img1 EXCEPT !.OS = cfgres.os.s]
           tags == manres[1].RepoTags IN
  IF tags.t /= "arr" THEN Fail(img2, rd2, "panic")
  ELSE LET img3 == [img2 EXCEPT !.RepoTags = @ \o StrPrefix(tags.a)] IN
  IF Len(StrPrefix(tags.a)) < Len(tags.a) THEN Fail(img3, rd2, "panic")
  ELSE [img |-> img3, reads |-> rd2, err |-> ""]

\* the pattern getImageInfo compiles
manifestSpec == Join(tempDir, "manifest.json")

\* getImageInfo(img): exactly one match of the manifest pattern, then readManifest
getImageInfo(img, d, rd) ==
  LET matches == checkForSpec(manifestSpec, img.FileList) IN
  IF Len(matches) /= 1
    THEN [img |-> img, reads |-> rd, err |-> "expecting one manifest.json!"]
  ELSE readManifest(img, matches[1], d, rd)

(***************************************************************************)
(* The images of the model: every forest of tar entries with at most       *)
(* MaxEntries entries in all, built from a set of plain entries and from   *)
(* layer entries (regular files named layer.tar holding a tar stream).     *)
(***************************************************************************)
GoodManifest == JsonArr(60, <<JObj(JStr("c.json"), JArr(<<JStr("r:1")>>), JAbsent, JAbsent)>>)
TwoRecords ==
  JsonArr(120, <<JObj(JStr("c.json"), JArr(<<JStr("r:1")>>), JAbsent, JAbsent),
                 JObj(JStr("c.json"), JArr(<<JStr("r:2")>>), JAbsent, JAbsent)>>)
NoRecords == JsonArr(2, <<>>)
BadTags == JsonArr(64, <<JObj(JStr("c.json"), JArr(<<JStr("r:1"), JNum>>), JAbsent, JAbsent)>>)

GoodConfig == JsonObj(40, JObj(JAbsent, JAbsent, JStr("amd64"), JStr("linux")))
EmptyArch == JsonObj(35, JObj(JAbsent, JAbsent, JStr(""), JStr("linux")))

\* entries of every kind extractTar tells apart
ExtractLeaves ==
  { Reg("hostname", DataBody(n)) : n \in {7, CopyLimit - 1, CopyLimit, CopyLimit + 1} }
  \cup { DirEntry("etc/"), Reg("etc/hostname", DataBody(7)),
         Reg("../../etc/passwd", DataBody(7)), Reg("../k-evil", DataBody(7)),
         DirEntry("../k-evil/"), OtherEntry("lnk"), Reg("layer.tar", DataBody(7)) }

\* entries of every kind manifest resolution tells apart
ResolveLeaves ==
  { Reg("manifest.json", b) : b \in {GoodManifest, TwoRecords, NoRecords, BadTags} }
  \cup { Reg("c.json", b) : b \in {GoodConfig, EmptyArch} }
  \cup { Reg("manifestXjson", GoodManifest), DirEntry("c.json/"), OtherEntry("lnk"),
         Reg("../../etc/passwd", DataBody(7)) }

LayerNames == {"layer.tar"}

RECURSIVE ForestsOf(_, _)
\* the entry sequences with exactly n entries, nested ones counted
ForestsOf(L, n) ==
  IF n = 0 THEN {<<>>}
  ELSE { <<e>> \o r : e \in L, r \in ForestsOf(L, n - 1) }
       \cup UNION { { <<Reg(nm, TarBody(b))>> \o r :
                        nm \in LayerNames, b \in ForestsOf(L, k),
                        r \in ForestsOf(L, n - 1 - k) } : k \in 0..(n - 1) }

Images(L) == UNION { ForestsOf(L, n) : n \in 0..MaxEntries }

\* saveImageToTar: filepath.Join(tempDir, randString(8)+".tar")
tarname == Join(tempDir, "imagetar" \o ".tar")

(***************************************************************************)
(* State.                                                                  *)
(***************************************************************************)
VARIABLES
  pc,      \* where imageHandler is: start, pulled, saved, extracting,
           \* extracted, resolved, done, fatal
  pulled,  \* how pullImage ended: none, ok, streamErr
  disk,    \* the file system
  stack,   \* one frame per active extractTar call, innermost last
  img,     \* the ImageInfo of getImageDetails
  reads,   \* the files getFileBytes opened, in order
  handed,  \* the ImageInfos passed to getPolicyFromImageInfo, in order
  err      \* the fatal message that ended the process, "" while it runs

vars == <<pc, pulled, disk, stack, img, reads, handed, err>>

\* the entries of the transport archive saveImageToTar wrote, <<>> before it
image == IF IsFile(disk, tarname) THEN disk.files[tarname].body.entries ELSE <<>>

\* the frame extractTar(name) starts with: its reader over the file, fl and dl empty
Frame(name, d) ==
  [tarname |-> name, entries |-> TarEntries(d.files[name]).entries, fl |-> <<>>, dl |-> <<>>]

\* the reader's first tr.Next() on the file fails: it is no tar stream
NextFails(name, d) == ~TarEntries(d.files[name]).ok

Top == stack[Len(stack)]
Hdr == Head(Top.entries)
Tgt == sanitizeArchivePath(tempDir, Hdr.Name)

\* the stack with its innermost frame replaced
SetTop(f) == [stack EXCEPT ![Len(stack)] = f]

\* log.Fatal / panic: the process ends
Fatal(msg) == pc' = "fatal" /\ err' = msg

Init ==
  /\ pc = "start"
  /\ pulled = "none"
  /\ disk = EmptyDisk
  /\ stack = <<>>
  /\ img = NewImageInfo("")
  /\ reads = <<>>
  /\ handed = <<>>
  /\ err = ""

(***************************************************************************)
(* imageHandler -> pullImage.  A failed ImagePull call is fatal; an error  *)
(* in the pull's message stream is logged and pullImage returns nil.       *)
(***************************************************************************)
PullImage ==
  /\ pc = "start"
  /\ \E outcome \in {"ok", "callErr", "streamErr"} :
       IF outcome = "callErr"
         THEN Fatal("could not pull image") /\ UNCHANGED pulled
       ELSE pc' = "pulled" /\ pulled' = outcome /\ UNCHANGED err
  /\ UNCHANGED <<disk, stack, img, reads, handed>>

(***************************************************************************)
(* getImageDetails -> saveImageToTar.  ImageSave exports whatever image    *)
(* the daemon holds under the name (after a failed pull: an older one, or  *)
(* none); the stream is written to tarname under tempDir.  The 5e+9 byte   *)
(* ceiling of this copy is beyond every image of the model.                *)
(***************************************************************************)
SaveImageFails ==
  /\ pc = "pulled"
  /\ Fatal("could not save image")
  /\ UNCHANGED <<pulled, disk, stack, img, reads, handed>>

SaveImageToTar(L) ==
  /\ pc = "pulled"
  /\ \E im \in Images(L) :
       disk' = WriteFile(disk, tarname, TarBody(im), TarSize(im))
  /\ img' = NewImageInfo("image")
  /\ pc' = "saved"
  /\ UNCHANGED <<pulled, stack, reads, handed, err>>

(***************************************************************************)
(* extractTar(tarname), one action per step of its loop.                   *)
(***************************************************************************)
\* os.Open(tarname), tar.NewReader and the reader's first tr.Next()
ExtractOpen ==
  /\ pc = "saved"
  /\ IF NextFails(tarname, disk)
       THEN Fatal("tar next failed") /\ UNCHANGED stack
     ELSE stack' = <<Frame(tarname, disk)>> /\ pc' = "extracting" /\ UNCHANGED err
  /\ UNCHANGED <<pulled, disk, img, reads, handed>>

\* faulty variant: a rejected entry ends the extraction (log.Fatal for log.Error)
ExtractTaintedAborts ==
  /\ pc = "extracting" /\ Top.entries /= <<>>
  /\ ~Tgt.ok
  /\ Fatal("ignoring file since it could not be sanitized")
  /\ UNCHANGED <<pulled, disk, stack, img, reads, handed>>

\* sanitizeArchivePath rejects the entry: logged, continue
ExtractTainted ==
  /\ pc = "extracting" /\ Top.entries /= <<>>
  /\ ~Tgt.ok
  /\ stack' = SetTop([Top EXCEPT !.entries = Tail(@)])
  /\ UNCHANGED <<pc, pulled, disk, img, reads, handed, err>>

\* case tar.TypeDir
ExtractDir ==
  /\ pc = "extracting" /\ Top.entries /= <<>>
  /\ Hdr.Typeflag = "dir"
  /\ LET t == Tgt IN
     /\ t.ok
     /\ IF ~StatOk(disk, t.v) /\ ~MkdirAllOk(disk, t.v)
          THEN Fatal("tar mkdirall") /\ UNCHANGED <<disk, stack>>
        ELSE /\ disk' = IF StatOk(disk, t.v) THEN disk ELSE MkdirAll(disk, t.v)
             /\ stack' = SetTop([Top EXCEPT !.entries = Tail(@), !.dl = Append(@, t.v)])
             /\ UNCHANGED <<pc, err>>
  /\ UNCHANGED <<pulled, img, reads, handed>>

\* case tar.TypeReg: create the file, copy at most CopyLimit bytes, then
\* either report the file or recurse into a layer archive (the nested
\* call's os.Open and first tr.Next() included)
ExtractReg ==
  /\ pc = "extracting" /\ Top.entries /= <<>>
  /\ Hdr.Typeflag = "reg"
  /\ LET t == Tgt
         c == CopyN(Hdr.body.size, CopyLimit)
         written == WriteFile(disk, t.v, Hdr.body, c.written) IN
     /\ t.ok
     /\ IF ~OpenFileOk(disk, t.v)
          THEN Fatal("tar open file") /\ UNCHANGED <<disk, stack>>
        ELSE IF ~c.eof
          THEN Fatal("tar io.Copy()") /\ disk' = written /\ UNCHANGED stack
        ELSE /\ disk' = written
             /\ IF ~HasSuffix(t.v, "layer.tar")
                  THEN /\ stack' = SetTop([Top EXCEPT !.entries = Tail(@), !.fl = Append(@, t.v)])
                       /\ UNCHANGED <<pc, err>>
                ELSE IF NextFails(t.v, written)
                  THEN Fatal("tar next failed") /\ UNCHANGED stack
                ELSE /\ stack' = Append(SetTop([Top EXCEPT !.entries = Tail(@)]),
                                        Frame(t.v, written))
                     /\ UNCHANGED <<pc, err>>
  /\ UNCHANGED <<pulled, img, reads, handed>>

\* any other type flag: no case of the switch
ExtractOther ==
  /\ pc = "extracting" /\ Top.entries /= <<>>
  /\ Hdr.Typeflag \notin {"dir", "reg"} /\ Tgt.ok
  /\ stack' = SetTop([Top EXCEPT !.entries = Tail(@)])
  /\ UNCHANGED <<pc, pulled, disk, img, reads, handed, err>>

\* faulty variant: the caller's lists are replaced by the nested call's
\* (fl = ifl for fl = append(fl, ifl...))
ExtractReturnNestedReplaces ==
  /\ pc = "extracting" /\ Top.entries = <<>>
  /\ Len(stack) > 1
  /\ LET caller == stack[Len(stack) - 1] IN
     stack' = [SubSeq(stack, 1, Len(stack) - 1) EXCEPT
                 ![Len(stack) - 1] = [caller EXCEPT !.fl = Top.fl, !.dl = Top.dl]]
  /\ UNCHANGED <<pc, pulled, disk, img, reads, handed, err>>

\* io.EOF in a nested call: return fl, dl; the caller appends them to its own
ExtractReturnNested ==
  /\ pc = "extracting" /\ Top.entries = <<>>
  /\ Len(stack) > 1
  /\ LET caller == stack[Len(stack) - 1] IN
     stack' = [SubSeq(stack, 1, Len(stack) - 1) EXCEPT
                 ![Len(stack) - 1] = [caller EXCEPT !.fl = @ \o Top.fl, !.dl = @ \o Top.dl]]
  /\ UNCHANGED <<pc, pulled, disk, img, reads, handed, err>>

\* io.EOF in the outermost call: img.FileList, img.DirList = extractTar(tarname)
ExtractReturn ==
  /\ pc = "extracting" /\ Top.entries = <<>>
  /\ Len(stack) = 1
  /\ img' = [img EXCEPT !.FileList = Top.fl, !.DirList = Top.dl]
  /\ stack' = <<>>
  /\ pc' = "extracted"
  /\ UNCHANGED <<pulled, disk, reads, handed, err>>

(***************************************************************************)
(* getImageDetails, step 3 and the hand-over.                              *)
(***************************************************************************)
\* faulty variant: failures of manifest resolution are logged and
\* getImageDetails goes on (log.Error for log.Fatal)
GetImageInfoContinues ==
  /\ pc = "extracted"
  /\ LET r == getImageInfo(img, disk, reads) IN
     /\ img' = r.img
     /\ reads' = r.reads
     /\ err' = r.err
     /\ pc' = "resolved"
  /\ UNCHANGED <<pulled, disk, stack, handed>>

GetImageInfo ==
  /\ pc = "extracted"
  /\ LET r == getImageInfo(img, disk, reads) IN
     /\ img' = r.img
     /\ reads' = r.reads
     /\ err' = r.err
     /\ pc' = IF r.err = "" THEN "resolved" ELSE "fatal"
  /\ UNCHANGED <<pulled, disk, stack, handed>>

GetPolicyFromImageInfo ==
  /\ pc = "resolved"
  /\ handed' = Append(handed, img)
  /\ pc' = "done"
  /\ UNCHANGED <<pulled, disk, stack, img, reads, err>>

Extract ==
  \/ ExtractOpen
  \/ ExtractTainted
  \/ ExtractDir
  \/ ExtractReg
  \/ ExtractOther
  \/ ExtractReturnNested
  \/ ExtractReturn

\* imageHandler(imageName), the images drawn from the resolution entries
Next ==
  \/ PullImage
  \/ SaveImageFails
  \/ SaveImageToTar(ResolveLeaves)
  \/ Extract
  \/ GetImageInfo
  \/ GetPolicyFromImageInfo

Spec == Init /\ [][Next]_vars

\* extractTar(tarname) alone, on every image built from the extraction
\* entries, saved under tarname in an otherwise empty tempDir
InitExtract ==
  /\ pc = "saved"
  /\ pulled = "ok"
  /\ \E im \in Images(ExtractLeaves) :
       disk = WriteFile(EmptyDisk, tarname, TarBody(im), TarSize(im))
  /\ stack = <<>>
  /\ img = NewImageInfo("image")
  /\ reads = <<>>
  /\ handed = <<>>
  /\ err = ""

SpecExtract == InitExtract /\ [][Extract]_vars
(***************************************************************************)
(* Properties of extraction, checked under SpecExtract.                    *)
(***************************************************************************)
\* what extractTar has created: every directory that did not exist before
\* and every file but the transport archive itself
Created ==
  (disk.dirs \ EmptyDisk.dirs) \cup (DOMAIN disk.files \ {tarname})

\* C1: every directory and file extractTar creates, in nested layer
\* archives too, is the extraction root or lies below it: an entry whose
\* cleaned joined path lies outside the root is rejected and nothing is
\* written for it.
C1_WritesStayInRoot == \A p \in Created : Within(tempDir, p)

\* the entries sanitizeArchivePath accepts, in layers too
RECURSIVE RemoveRejected(_)
RemoveRejected(entries) ==
  IF entries = <<>> THEN <<>>
  ELSE LET e == Head(entries) IN
       IF ~HasPrefix(Join(tempDir, e.Name), tempDir) THEN RemoveRejected(Tail(entries))
       ELSE IF e.body.kind = "tar"
         THEN <<[e EXCEPT !.body = TarBody(RemoveRejected(e.body.entries))]>>
              \o RemoveRejected(Tail(entries))
       ELSE <<e>> \o RemoveRejected(Tail(entries))

\* the inventories of an archive none of whose entries is rejected: which
\* is "fl" or "dl"; layer archives are replaced by their own inventories
RECURSIVE Inventory(_, _)
Inventory(entries, which) ==
  IF entries = <<>> THEN <<>>
  ELSE LET e == Head(entries)
           p == Join(tempDir, e.Name)
           here == IF e.Typeflag = "reg" /\ HasSuffix(p, "layer.tar")
                     THEN Inventory(e.body.entries, which)
                   ELSE IF e.Typeflag = "reg" /\ which = "fl" THEN <<p>>
                   ELSE IF e.Typeflag = "dir" /\ which = "dl" THEN <<p>>
                   ELSE <<>> IN
       here \o Inventory(Tail(entries), which)

\* the step that meets an entry sanitizeArchivePath rejects
AtTainted == pc = "extracting" /\ Top.entries /= <<>> /\ ~Tgt.ok

\* C2: a rejected entry does not abort extractTar: the step that meets it
\* changes neither the file system nor the lists and moves on to the next
\* entry, and the inventories extractTar returns are those of the archive
\* with the rejected entries removed.
C2_RejectedEntrySkipped ==
  /\ [](pc = "extracted" =>
          /\ img.FileList = Inventory(RemoveRejected(image), "fl")
          /\ img.DirList = Inventory(RemoveRejected(image), "dl"))
  /\ [][AtTainted =>
          /\ pc' = "extracting" /\ err' = err /\ disk' = disk
          /\ Len(stack') = Len(stack)
          /\ stack'[Len(stack)].fl = Top.fl /\ stack'[Len(stack)].dl = Top.dl
          /\ stack'[Len(stack)].entries = Tail(Top.entries)]_vars

\* extractTar returned for an archive holding a rejected entry followed by
\* a regular file that was extracted
C2_Witness ==
  /\ pc = "extracted"
  /\ Len(image) >= 2
  /\ image[1].Name = "../../etc/passwd"
  /\ img.FileList = <<Join(tempDir, "hostname")>>

\* the file list in archive entry order, each layer archive replaced by
\* the files of its entries
RECURSIVE ExpectedFiles(_)
ExpectedFiles(entries) ==
  IF entries = <<>> THEN <<>>
  ELSE LET e == Head(entries)
           s == sanitizeArchivePath(tempDir, e.Name) IN
       (IF ~s.ok \/ e.Typeflag /= "reg" THEN <<>>
        ELSE IF HasSuffix(s.v, "layer.tar") THEN ExpectedFiles(e.body.entries)
        ELSE <<s.v>>)
       \o ExpectedFiles(Tail(entries))

\* C3: the file list extractTar returns holds the top-level regular files
\* and the regular files of the nested layer archives, duplicates kept, in
\* archive entry order with each layer's files at the place of its entry.
C3_FileListIsFlattenedArchive ==
  pc = "extracted" => img.FileList = ExpectedFiles(image)

\* a layer archive holding a file, in front of a top-level file of the
\* same path: the path is reported twice, the layer's first
C3_Witness ==
  /\ pc = "extracted"
  /\ Len(image) = 2
  /\ image[1].body.kind = "tar" /\ Len(image[1].body.entries) = 1
  /\ image[2].Name = "hostname"
  /\ img.FileList = <<Join(tempDir, "hostname"), Join(tempDir, "hostname")>>

\* C4: a regular-file entry is a fatal extraction error exactly when its
\* content exceeds the byte ceiling: the copy is fatal only for an entry
\* above CopyLimit, and an entry above it is never reported.
C4_FatalIffAboveCeiling ==
  /\ err = "tar io.Copy()" => Hdr.body.size > CopyLimit
  /\ \A i \in 1..Len(stack) : \A p \in {stack[i].fl[j] : j \in 1..Len(stack[i].fl)} :
       disk.files[p].body.size <= CopyLimit

(***************************************************************************)
(* Properties of imageHandler as a whole, checked under Spec.              *)
(***************************************************************************)
\* the files readManifest read: manifest first, config second
ManifestFile == disk.files[reads[1]]
ConfigFile == disk.files[reads[2]]

\* C5: an ImageInfo that reaches getPolicyFromImageInfo has a non-empty
\* Arch and OS, the "architecture" and "os" strings of the config record
\* named by the manifest's Config field.
C5_ArchAndOSNonEmpty ==
  \A i \in 1..Len(handed) :
    /\ handed[i].Arch /= "" /\ handed[i].OS /= ""
    /\ Len(reads) = 2
    /\ reads[2] = Join(tempDir, ManifestFile.body.objs[1].Config.s)
    /\ ConfigFile.body.objs[1].architecture = JStr(handed[i].Arch)
    /\ ConfigFile.body.objs[1].os = JStr(handed[i].OS)

\* C6: after a failed pull, a failure in the pull's message stream
\* included, extractTar is never started.
C6_NoExtractionAfterFailedPull ==
  pulled = "streamErr" => pc \notin {"extracting", "extracted", "resolved", "done"}

RECURSIVE AllStr(_)
AllStr(a) == a = <<>> \/ (Head(a).t = "str" /\ AllStr(Tail(a)))

\* C7: getPolicyFromImageInfo is invoked at most once, only after
\* extractTar has returned and manifest resolution has completed with Arch,
\* OS and RepoTags set from the records, and never after a fatal error.
C7_HandedOnlyWhenComplete ==
  /\ Len(handed) <= 1
  /\ pc = "fatal" => handed = <<>>
  /\ handed /= <<>> =>
       /\ pc = "done" /\ err = "" /\ stack = <<>>
       /\ handed[1] = img
       /\ img.FileList = ExpectedFiles(image)
       /\ Len(reads) = 2
       /\ LET man == ManifestFile.body.objs[1]
              cfg == ConfigFile.body.objs[1] IN
          /\ cfg.architecture = JStr(img.Arch)
          /\ cfg.os = JStr(img.OS)
          /\ man.RepoTags.t = "arr" /\ AllStr(man.RepoTags.a)
          /\ img.RepoTags = [i \in 1..Len(man.RepoTags.a) |-> man.RepoTags.a[i].s]

\* the collaborator has been handed the resolved ImageInfo
C7_Witness ==
  /\ pc = "done"
  /\ Len(handed) = 1
  /\ handed[1].Arch = "amd64" /\ handed[1].OS = "linux" /\ handed[1].RepoTags = <<"r:1">>

\* C8: a manifest whose array holds zero or several records makes
\* readManifest fail with the cardinality error before any config file is
\* read, with Arch, OS and RepoTags as they were before the call.
C8_CardinalityErrorSetsNothing ==
  (/\ reads /= <<>>
   /\ ManifestFile.body.kind = "jsonarr" /\ Intact(ManifestFile)
   /\ Len(ManifestFile.body.objs) /= 1)
  => /\ pc = "fatal" /\ err = "expecting one config in manifest!"
     /\ Len(reads) = 1
     /\ img.Arch = "" /\ img.OS = "" /\ img.RepoTags = <<>>
     /\ handed = <<>>

\* readManifest has read a manifest of two records
C8_Witness ==
  /\ err = "expecting one config in manifest!"
  /\ Len(ManifestFile.body.objs) = 2

\* getImageInfo has run
Resolved ==
  \/ pc \in {"resolved", "done"}
  \/ pc = "fatal" /\ err \in {"expecting one manifest.json!", "open file failed",
                              "manifest read failed", "manifest json unmarshal failed",
                              "expecting one config in manifest!", "panic",
                              "config read failed", "config json unmarshal failed"}

\* C9: readManifest is called exactly when one inventory path matches the
\* manifest pattern, and then on manifest.json directly under tempDir.
C9_ReadsManifestJsonOnly ==
  Resolved =>
    /\ reads /= <<>> <=> Len(checkForSpec(manifestSpec, img.FileList)) = 1
    /\ reads /= <<>> => reads[1] = Join(tempDir, "manifest.json")

\* the archive with every layer archive emptied
EmptyLayers(entries) ==
  [i \in 1..Len(entries) |->
     IF entries[i].body.kind = "tar" THEN [entries[i] EXCEPT !.body = TarBody(<<>>)]
     ELSE entries[i]]

RECURSIVE ExtractFlat(_, _, _)
\* extractTar on an archive whose layer archives are empty: the file
\* system and file list it ends with, ok FALSE when it is fatal
ExtractFlat(entries, d, fl) ==
  IF entries = <<>> THEN [ok |-> TRUE, disk |-> d, fl |-> fl]
  ELSE LET e == Head(entries)
           s == sanitizeArchivePath(tempDir, e.Name)
           failed == [ok |-> FALSE, disk |-> d, fl |-> fl] IN
       IF ~s.ok \/ e.Typeflag \notin {"dir", "reg"} THEN ExtractFlat(Tail(entries), d, fl)
       ELSE IF e.Typeflag = "dir" THEN
         IF StatOk(d, s.v) THEN ExtractFlat(Tail(entries), d, fl)
         ELSE IF MkdirAllOk(d, s.v) THEN ExtractFlat(Tail(entries), MkdirAll(d, s.v), fl)
         ELSE failed
       ELSE IF ~OpenFileOk(d, s.v) \/ e.body.size >= CopyLimit THEN failed
       ELSE ExtractFlat(Tail(entries), WriteFile(d, s.v, e.body, e.body.size),
                        IF HasSuffix(s.v, "layer.tar") THEN fl ELSE Append(fl, s.v))

\* C10: manifest resolution depends on the top-level entries alone: it
\* ends as it ends for the archive with its layer archives emptied, fatal
\* for both or with the same Arch, OS and RepoTags for both.
C10_LayersDoNotChangeResolution ==
  LET flat == ExtractFlat(EmptyLayers(image), EmptyDisk, <<>>)
      r == getImageInfo([NewImageInfo("image") EXCEPT !.FileList = flat.fl], flat.disk, <<>>) IN
  (Resolved /\ flat.ok) =>
    /\ (pc = "fatal") <=> (r.err /= "")
    /\ pc /= "fatal" =>
         /\ img.Arch = r.img.Arch /\ img.OS = r.img.OS /\ img.RepoTags = r.img.RepoTags

====
